---- MODULE Spec2Model ----
(***************************************************************************)
(* DatabaseManager of traffic-platform/src/config/database.py: a pooled    *)
(* psycopg2 client.  Callers (threads of the service layer) run the public *)
(* methods; each method is a try block (get_connection, cursor, statements,*)
(* commit, return_connection) and an except block.  The model follows each *)
(* method statement by statement, with the points at which psycopg2 can    *)
(* raise drawn nondeterministically.                                       *)
(***************************************************************************)
EXTENDS Integers, Sequences, FiniteSets, TLC

\* ----------------------------------------------------------------- bounds
NumProcs == 2
MaxTime == 2
TicksPerDay == 2
DaysPerYear == 2
MaxRows == 2
MaxFaults == 2

\* ------------------------------------------------------ program constants
MINCONN == 1
MAXCONN == 10
TRAFFIC_WINDOW_DAYS == 7
EMERGENCY_WINDOW_DAYS == 30

Procs == 1 .. NumProcs
Conns == 1 .. (MAXCONN + NumProcs + 1)
Times == 0 .. MaxTime

Day(t) == t \div TicksPerDay
YearOf(t) == Day(t) \div DaysPerYear
Days == {Day(t) : t \in Times}

\* Python values that cross the interface
None == [t |-> "None"]
Nothing == [t |-> "None"]
List(s) == [t |-> "list", v |-> s]
Dict(d) == [t |-> "dict", v |-> d]
Val(x) == [t |-> "value", v |-> x]

\* f"{n:03d}": the decimal digits of n, filled with zeros on the left up to
\* width w (a minimum width: a longer number keeps all its digits)
RECURSIVE Digits(_)
Digits(n) == IF n < 10 THEN <<n>> ELSE Append(Digits(n \div 10), n % 10)

RECURSIVE ZeroFill(_, _)
ZeroFill(d, w) == IF Len(d) >= w THEN d ELSE ZeroFill(<<0>> \o d, w)

Pad(n, w) == ZeroFill(Digits(n), w)

\* a generated identifier TAG-date-sequence: its three components, the sequence
\* number both as counted and as formatted
Identifier(tag, date, n, w) == [tag |-> tag, date |-> date, seq |-> n, seq_text |-> Pad(n, w)]

\* json.dumps of a structured value: the text it produces
JsonDumps(x) ==
    IF x = None THEN "null"
    ELSE IF x.t = "dict" THEN (IF x.v = <<>> THEN "{}" ELSE "{\"k\": 1}")
    ELSE (IF x.v = <<>> THEN "[]" ELSE "[1]")

\* the truth value Python gives a structured value: None and the empty
\* containers are false
Truthy(x) == x # None /\ x.v # <<>>

\* a nullable JSON column: absent (NULL) or the text stored
Absent == <<>>
Present(text) == <<text>>

\* json.dumps(x) if x else None, as the inserts pass their optional payloads
DumpsIfTruthy(x) == IF Truthy(x) THEN Present(JsonDumps(x)) ELSE Absent

\* a local name that was never assigned (reading it raises UnboundLocalError)
Unbound == 0

\* ------------------------------------------------------------- operations
Ops == {"initialize_database", "log_emergency_detection", "log_signal_state_change",
        "create_emergency_route", "update_route_completion", "get_all_signals",
        "get_signal_by_id", "update_signal_heartbeat", "get_traffic_analytics",
        "get_emergency_analytics", "log_system_event", "get_hospitals",
        "cleanup_old_data"}

\* the operations whose try block ends with conn.commit()
Commits(o) == o \in {"log_emergency_detection", "log_signal_state_change",
                     "create_emergency_route", "update_route_completion",
                     "update_signal_heartbeat", "log_system_event", "cleanup_old_data"}

\* the operations whose except block calls conn.rollback()
RollsBack(o) == o \in {"log_emergency_detection", "log_signal_state_change",
                       "create_emergency_route", "update_route_completion",
                       "update_signal_heartbeat", "log_system_event", "cleanup_old_data"}

\* the writes alone ending with a bare raise: initialize_database written as
\* the reads are, answering a failed round trip with a return
ReraisesWritesOnly(o) == o \in {"log_emergency_detection", "log_signal_state_change",
                                "create_emergency_route", "update_route_completion"}

\* the operations whose except block ends with a bare raise
Reraises(o) == o \in {"initialize_database", "log_emergency_detection",
                      "log_signal_state_change", "create_emergency_route",
                      "update_route_completion"}

\* what the except block of the other operations returns
SafeValue(o) == CASE o \in {"get_all_signals", "get_hospitals"} -> List(<<>>)
                  [] o \in {"get_traffic_analytics", "get_emergency_analytics"} -> Dict(<<>>)
                  [] OTHER -> None

\* number of cursor.execute calls in the try block
Statements(o) == CASE o \in {"log_emergency_detection", "create_emergency_route",
                             "log_system_event"} -> 2
                   [] o \in {"get_traffic_analytics", "get_emergency_analytics"} -> 3
                   [] o = "cleanup_old_data" -> 4
                   [] OTHER -> 1

\* ---------------------------------------------------------- the database
\* SQL NULL in a numeric column
NULL == -1

\* Rows are records; every table has a surrogate primary key id.  Only the
\* columns that some statement of database.py reads, or that decide which row
\* a statement touches, are kept.
InsertTables == {"emergency_detections", "emergency_routes",
                 "signal_state_history", "system_events"}

\* rows that exist before this layer runs (it never inserts into these tables)
InitialSignals ==
    { [id |-> "S1", name |-> 1, status |-> "active", last_heartbeat |-> NULL,
       connection_status |-> "unknown", updated_at |-> NULL],
      [id |-> "S2", name |-> 2, status |-> "inactive", last_heartbeat |-> NULL,
       connection_status |-> "unknown", updated_at |-> NULL] }

InitialHospitals ==
    { [id |-> 1, name |-> 1, hospital_type |-> "general", emergency_services |-> TRUE,
       status |-> "active"],
      [id |-> 2, name |-> 2, hospital_type |-> "clinic", emergency_services |-> FALSE,
       status |-> "active"] }

InitialAnalytics == { [id |-> 1, date |-> 0] }

EmptyDb == [emergency_detections |-> {}, emergency_routes |-> {},
            signal_state_history |-> {}, system_events |-> {},
            traffic_signals |-> InitialSignals, hospitals |-> InitialHospitals,
            traffic_analytics |-> InitialAnalytics]

\* r with the columns of u overwritten (UPDATE ... SET)
Merge(r, u) == [f \in DOMAIN r |-> IF f \in DOMAIN u THEN u[f] ELSE r[f]]

\* the pending write applied as it would be were the insert guarded against a
\* row that repeats an existing one in all but its serial id (ON CONFLICT DO
\* NOTHING on the generated identifier), which the statements do not ask for
ApplyDistinct(d, w) ==
    CASE w.k = "insert" ->
             IF \E r \in d[w.table] : \A f \in DOMAIN r \ {"id"} : r[f] = w.row[f]
             THEN d
             ELSE [d EXCEPT ![w.table] = @ \cup {w.row}]
      [] w.k = "update" -> [d EXCEPT ![w.table] =
                               {IF r.id \in w.ids THEN [f \in DOMAIN r |->
                                   IF f \in DOMAIN w.row THEN w.row[f] ELSE r[f]] ELSE r : r \in @}]
      [] w.k = "delete" -> [d EXCEPT ![w.table] = {r \in @ : r.id \notin w.ids}]

\* one pending write of a transaction applied to the tables
Apply(d, w) ==
    CASE w.k = "insert" -> [d EXCEPT ![w.table] = @ \cup {w.row}]
      [] w.k = "update" -> [d EXCEPT ![w.table] =
                               {IF r.id \in w.ids THEN Merge(r, w.row) ELSE r : r \in @}]
      [] w.k = "delete" -> [d EXCEPT ![w.table] = {r \in @ : r.id \notin w.ids}]

\* a commit that makes only the first pending write of the transaction visible
ApplyFirst(d, ws) ==
    IF ws = <<>> THEN d
    ELSE CASE Head(ws).k = "insert" -> [d EXCEPT ![Head(ws).table] = @ \cup {Head(ws).row}]
           [] Head(ws).k = "update" -> d
           [] Head(ws).k = "delete" ->
                [d EXCEPT ![Head(ws).table] = {r \in @ : r.id \notin Head(ws).ids}]

RECURSIVE ApplyAll(_, _)
ApplyAll(d, ws) == IF ws = <<>> THEN d ELSE ApplyAll(Apply(d, Head(ws)), Tail(ws))

\* the elements of a finite set of rows as a sequence ordered by key (ORDER BY)
RECURSIVE SortBy(_, _)
SortBy(S, f) ==
    IF S = {} THEN <<>>
    ELSE LET m == CHOOSE x \in S : \A y \in S : x[f] <= y[f]
         IN <<m>> \o SortBy(S \ {m}, f)

\* ------------------------------------------------------------- arguments
SignalArgs == {"S1"}
VehicleTypes == {"ambulance"}
ResponseTimes == {NULL}
RouteIdArgs == {Identifier("ER", 0, 1, 3)}
StatusArgs == {"completed", "failed"}
DateRangeArgs == {<<NULL, NULL>>, <<0, 0>>}
HospitalArgs == {<<"", FALSE>>, <<"general", TRUE>>}
DaysToKeepArgs == {0, 1}

NoArgs == [signal_id |-> "S1", vehicle_type |-> "ambulance", confidence |-> 90,
           detection_time |-> 0,
           response_time_ms |-> NULL, state |-> "green", duration |-> 1,
           route_id |-> Identifier("ER", 0, 1, 3),
           actual_duration |-> 30, time_saved |-> 5, status |-> "completed",
           connection_status |-> "connected", start_date |-> NULL, end_date |-> NULL,
           event_type |-> "info", hospital_type |-> "", emergency_only |-> FALSE,
           days_to_keep |-> 0, bbox_coordinates |-> None, features_detected |-> None,
           start_location |-> Dict(<<1>>), end_location |-> Dict(<<1>>),
           route_waypoints |-> None, signals_coordinated |-> None, event_data |-> None]

ArgsOf(o) ==
    CASE o = "log_emergency_detection" ->
           {[NoArgs EXCEPT !.signal_id = s, !.vehicle_type = v, !.detection_time = t,
                           !.response_time_ms = r] :
              s \in SignalArgs, v \in VehicleTypes, t \in Times, r \in ResponseTimes}
      [] o = "log_signal_state_change" -> {[NoArgs EXCEPT !.signal_id = s] : s \in SignalArgs}
      [] o = "create_emergency_route" -> {[NoArgs EXCEPT !.vehicle_type = v] : v \in VehicleTypes}
      [] o = "update_route_completion" ->
           {[NoArgs EXCEPT !.route_id = i, !.status = s] : i \in RouteIdArgs, s \in StatusArgs}
      [] o = "get_signal_by_id" -> {[NoArgs EXCEPT !.signal_id = s] : s \in {"S1", "S0"}}
      [] o = "update_signal_heartbeat" -> {[NoArgs EXCEPT !.signal_id = s] : s \in {"S1", "S0"}}
      [] o \in {"get_traffic_analytics", "get_emergency_analytics"} ->
           {[NoArgs EXCEPT !.start_date = r[1], !.end_date = r[2]] : r \in DateRangeArgs}
      [] o = "get_hospitals" ->
           {[NoArgs EXCEPT !.hospital_type = h[1], !.emergency_only = h[2]] :
              h \in HospitalArgs}
      [] o = "cleanup_old_data" -> {[NoArgs EXCEPT !.days_to_keep = d] : d \in DaysToKeepArgs}
      [] OTHER -> {NoArgs}

\* ------------------------------------------------------------------ state
VARIABLES
    store,       \* the DatabaseManager: "unconstructed", "ready" or "failed" (__init__ raised)
    pool,        \* self.connection_pool: [closed, idle (_pool), used (_used)]
    db,          \* the committed rows of every table
    serial,      \* the sequence behind each table's id column
    now,         \* the clock (datetime.now(), NOW(), CURRENT_DATE)
    call,        \* per caller: the method it is in, its locals and its last outcome
    issued,      \* history: per method, the last two identifiers that calls committed
    logged,      \* history: the arguments of the committed log_emergency_detection calls
    pinged,      \* history: initialize_database has completed its round trip
    faultsLeft   \* environment: failures psycopg2 may still raise

vars == <<store, pool, db, serial, now, call, issued, logged, pinged, faultsLeft>>

NoId == [tag |-> "", date |-> 0, seq |-> 0, seq_text |-> <<>>]
NoLocals == [start_date |-> 0, end_date |-> 0, cutoff_date |-> 0]

\* self.connection_pool = None
NoPool == [made |-> FALSE, closed |-> FALSE, idle |-> {}, used |-> {}]

IdleCall == [pc |-> "idle", op |-> "none", args |-> NoArgs, conn |-> Unbound,
             cursor |-> FALSE, stmt |-> 0, intrans |-> FALSE, txn |-> <<>>,
             gen_id |-> NoId, locals |-> NoLocals, fetched |-> <<>>, e |-> "none",
             outcome |-> "none", exc |-> "none", value |-> None, trail |-> <<>>,
             before |-> EmptyDb]

NoIssue == [id |-> NoId, day |-> NULL]
NoneIssued == [o \in {"log_emergency_detection", "create_emergency_route",
                      "log_system_event"} |-> [prev |-> NoIssue, last |-> NoIssue]]

InitFrom(rows, budget) ==
    /\ store = "unconstructed"
    /\ pool = NoPool
    /\ db = rows
    /\ serial = [t \in InsertTables |-> 0]
    /\ now = 0
    /\ call = [p \in Procs |-> IdleCall]
    /\ issued = NoneIssued
    /\ logged = <<>>
    /\ pinged = FALSE
    /\ faultsLeft = budget

InitWith(budget) == InitFrom(EmptyDb, budget)

Init == InitWith(MaxFaults)

\* what connection p sees: the committed rows and its own pending writes
Visible(p) == ApplyAll(db, call[p].txn)

\* --------------------------------------------------- statements, per method
Insert(table, row) == [k |-> "insert", table |-> table, row |-> row, ids |-> {}]
Update(table, ids, set) == [k |-> "update", table |-> table, row |-> set, ids |-> ids]
Delete(table, ids) == [k |-> "delete", table |-> table, row |-> [id |-> 0], ids |-> ids]

\* what a statement leaves unchanged
Same(p) == [txn |-> call[p].txn, gen_id |-> call[p].gen_id, locals |-> call[p].locals,
            fetched |-> call[p].fetched, serial |-> serial]

NextId(table) == serial[table] + 1

\* SELECT COUNT(*) ... WHERE <column>::date = CURRENT_DATE, plus one
DailyCount(rows, column) ==
    Cardinality({r \in rows : Day(r[column]) = Day(now)}) + 1

\* BETWEEN start_date AND end_date on <column>::date
InRange(t, l) == l.start_date <= Day(t) /\ Day(t) <= l.end_date

\* the defaults taken as the present day alone, with no trailing window
WindowToday(a, days) ==
    [start_date |-> IF a.start_date = NULL THEN Day(now) ELSE a.start_date,
     end_date |-> IF a.end_date = NULL THEN Day(now) ELSE a.end_date,
     cutoff_date |-> 0]

\* start_date / end_date defaulted to a trailing window
Window(a, days) ==
    [start_date |-> IF a.start_date = NULL THEN Day(now) - days ELSE a.start_date,
     end_date |-> IF a.end_date = NULL THEN Day(now) ELSE a.end_date,
     cutoff_date |-> 0]

InitializeDatabaseStmt(p, k) == [Same(p) EXCEPT !.fetched = <<1>>]

LogEmergencyDetectionStmt(p, k) ==
    LET c == call[p]
        a == call[p].args
    IN IF k = 1
       THEN [Same(p) EXCEPT !.gen_id =
                Identifier("ED", YearOf(now),
                           DailyCount(Visible(p).emergency_detections, "detection_time"), 3)]
       ELSE [Same(p) EXCEPT
                !.txn = Append(@, Insert("emergency_detections",
                           [id |-> NextId("emergency_detections"),
                            detection_id |-> c.gen_id, signal_id |-> a.signal_id,
                            vehicle_type |-> a.vehicle_type, confidence |-> a.confidence,
                            detection_time |-> a.detection_time,
                            bbox_coordinates |-> DumpsIfTruthy(a.bbox_coordinates),
                            features_detected |-> DumpsIfTruthy(a.features_detected),
                            response_time_ms |-> a.response_time_ms])),
                !.serial = [serial EXCEPT !["emergency_detections"] = @ + 1],
                !.fetched = <<c.gen_id>>]

LogSignalStateChangeStmt(p, k) ==
    LET a == call[p].args
    IN [Same(p) EXCEPT
           !.txn = Append(@, Insert("signal_state_history",
                      [id |-> NextId("signal_state_history"), signal_id |-> a.signal_id,
                       state |-> a.state, state_duration |-> a.duration,
                       start_time |-> now, end_time |-> now + a.duration])),
           !.serial = [serial EXCEPT !["signal_state_history"] = @ + 1],
           !.fetched = <<NextId("signal_state_history")>>]

CreateEmergencyRouteStmt(p, k) ==
    LET c == call[p]
        a == call[p].args
    IN IF k = 1
       THEN [Same(p) EXCEPT !.gen_id =
                Identifier("ER", YearOf(now),
                           DailyCount(Visible(p).emergency_routes, "created_at"), 3)]
       ELSE [Same(p) EXCEPT
                !.txn = Append(@, Insert("emergency_routes",
                           [id |-> NextId("emergency_routes"), route_id |-> c.gen_id,
                            vehicle_type |-> a.vehicle_type, created_at |-> now,
                            start_location |-> Present(JsonDumps(a.start_location)),
                            end_location |-> Present(JsonDumps(a.end_location)),
                            route_waypoints |-> DumpsIfTruthy(a.route_waypoints),
                            signals_coordinated |-> DumpsIfTruthy(a.signals_coordinated),
                            status |-> "pending", actual_duration |-> NULL,
                            time_saved |-> NULL, completed_at |-> NULL])),
                !.serial = [serial EXCEPT !["emergency_routes"] = @ + 1],
                !.fetched = <<c.gen_id>>]

\* the UPDATE written without its WHERE clause: every route is set
UpdateRouteCompletionNoWhere(p, k) ==
    LET a == call[p].args
        hit == {r.id : r \in Visible(p).emergency_routes}
    IN [Same(p) EXCEPT
           !.txn = Append(@, Update("emergency_routes", hit,
                      [actual_duration |-> a.actual_duration, time_saved |-> a.time_saved,
                       status |-> a.status, completed_at |-> now]))]

UpdateRouteCompletionStmt(p, k) ==
    LET a == call[p].args
        hit == {r.id : r \in {x \in Visible(p).emergency_routes : x.route_id = a.route_id}}
    IN [Same(p) EXCEPT
           !.txn = Append(@, Update("emergency_routes", hit,
                      [actual_duration |-> a.actual_duration, time_saved |-> a.time_saved,
                       status |-> a.status, completed_at |-> now]))]

GetAllSignalsStmt(p, k) ==
    [Same(p) EXCEPT !.fetched =
        <<SortBy({r \in Visible(p).traffic_signals : r.status = "active"}, "name")>>]

GetSignalByIdStmt(p, k) ==
    [Same(p) EXCEPT !.fetched =
        <<{r \in Visible(p).traffic_signals : r.id = call[p].args.signal_id}>>]

UpdateSignalHeartbeatStmt(p, k) ==
    LET a == call[p].args
        hit == {r.id : r \in {x \in Visible(p).traffic_signals : x.id = a.signal_id}}
    IN [Same(p) EXCEPT
           !.txn = Append(@, Update("traffic_signals", hit,
                      [last_heartbeat |-> now, connection_status |-> a.connection_status,
                       updated_at |-> now]))]

\* COUNT(*) where COUNT(CASE WHEN vehicle_type = v ...) was meant
CountAnyType(rows, v) == Cardinality(rows)
CountType(rows, v) == Cardinality({r \in rows : r.vehicle_type = v})

\* the SQL aggregates over column f of a set of rows: NULLs are skipped, and the
\* aggregate of no value is NULL; AVG is kept in hundredths
RECURSIVE SumOf(_, _)
SumOf(rows, f) ==
    IF rows = {} THEN 0
    ELSE LET r == CHOOSE x \in rows : TRUE IN r[f] + SumOf(rows \ {r}, f)

NotNull(rows, f) == {r \in rows : r[f] # NULL}
Avg(rows, f) ==
    IF NotNull(rows, f) = {} THEN NULL
    ELSE (SumOf(NotNull(rows, f), f) * 100) \div Cardinality(NotNull(rows, f))
Max(rows, f) ==
    IF NotNull(rows, f) = {} THEN NULL
    ELSE CHOOSE m \in {r[f] : r \in NotNull(rows, f)} : \A r \in NotNull(rows, f) : r[f] <= m
Min(rows, f) ==
    IF NotNull(rows, f) = {} THEN NULL
    ELSE CHOOSE m \in {r[f] : r \in NotNull(rows, f)} : \A r \in NotNull(rows, f) : m <= r[f]

\* ORDER BY <column> DESC
Reverse(q) == [i \in 1 .. Len(q) |-> q[Len(q) + 1 - i]]

\* the join written as an inner join: only the signals that have a detection
SignalStatisticsInnerJoin(signals, rows) ==
    Reverse(SortBy({[id |-> s.id, name |-> s.name,
                     detections |-> Cardinality({r \in rows : r.signal_id = s.id}),
                     avg_confidence |-> Avg({r \in rows : r.signal_id = s.id}, "confidence"),
                     last_detection |-> Max({r \in rows : r.signal_id = s.id},
                                            "detection_time")] :
                    s \in {x \in signals : \E r \in rows : r.signal_id = x.id}},
                   "detections"))

\* traffic_signals LEFT JOIN the in-range detections, grouped by signal and
\* ordered by the number of detections, highest first
SignalStatistics(signals, rows) ==
    Reverse(SortBy({[id |-> s.id, name |-> s.name,
                     detections |-> Cardinality({r \in rows : r.signal_id = s.id}),
                     avg_confidence |-> Avg({r \in rows : r.signal_id = s.id}, "confidence"),
                     last_detection |-> Max({r \in rows : r.signal_id = s.id},
                                            "detection_time")] :
                    s \in signals}, "detections"))

GetTrafficAnalyticsStmt(p, k) ==
    LET l == IF k = 1 THEN Window(call[p].args, TRAFFIC_WINDOW_DAYS) ELSE call[p].locals
        vis == Visible(p)
        rows == {r \in vis.emergency_detections : InRange(r.detection_time, l)}
        overall == [total_detections |-> Cardinality(rows),
                    signals_with_detections |-> Cardinality({r.signal_id : r \in rows}),
                    avg_confidence |-> Avg(rows, "confidence"),
                    ambulance_detections |-> CountType(rows, "ambulance"),
                    police_detections |-> CountType(rows, "police"),
                    fire_truck_detections |-> CountType(rows, "fire_truck")]
        daily == SortBy({[date |-> d,
                          detections |-> Cardinality({r \in rows : Day(r.detection_time) = d}),
                          signals_involved |-> Cardinality({r.signal_id :
                                r \in {x \in rows : Day(x.detection_time) = d}}),
                          avg_confidence |-> Avg({x \in rows : Day(x.detection_time) = d},
                                                 "confidence")] :
                         d \in {Day(r.detection_time) : r \in rows}}, "date")
        signal == SignalStatistics(vis.traffic_signals, rows)
    IN [Same(p) EXCEPT !.locals = l,
                       !.fetched = Append(@, CASE k = 1 -> overall
                                               [] k = 2 -> daily
                                               [] OTHER -> signal)]

\* the CASE WHEN tests of the three response-time counts
IsFast(ms) == ms < 1000
IsMediumAbove(ms) == ms > 1000 /\ ms < 3000
IsMedium(ms) == ms >= 1000 /\ ms < 3000
IsSlow(ms) == ms >= 3000

GetEmergencyAnalyticsStmt(p, k) ==
    LET l == IF k = 1 THEN Window(call[p].args, EMERGENCY_WINDOW_DAYS) ELSE call[p].locals
        vis == Visible(p)
        routes == {r \in vis.emergency_routes : InRange(r.created_at, l)}
        rows == {r \in vis.emergency_detections : InRange(r.detection_time, l)}
        timed == {r \in rows : r.response_time_ms # NULL}
        route_stats == [total_routes |-> Cardinality(routes),
                        completed_routes |-> Cardinality({r \in routes : r.status = "completed"}),
                        avg_actual_duration |-> Avg(routes, "actual_duration"),
                        avg_time_saved |-> Avg(routes, "time_saved"),
                        ambulance_routes |-> CountType(routes, "ambulance"),
                        police_routes |-> CountType(routes, "police"),
                        fire_truck_routes |-> CountType(routes, "fire_truck")]
        response_stats ==
            [avg_response_time |-> Avg(timed, "response_time_ms"),
             min_response_time |-> Min(timed, "response_time_ms"),
             max_response_time |-> Max(timed, "response_time_ms"),
             fast_responses |-> Cardinality({r \in timed : IsFast(r.response_time_ms)}),
             medium_responses |-> Cardinality({r \in timed : IsMedium(r.response_time_ms)}),
             slow_responses |-> Cardinality({r \in timed : IsSlow(r.response_time_ms)})]
        hourly == SortBy({[hour |-> h,
                           detections |-> Cardinality({r \in rows :
                                               r.detection_time % TicksPerDay = h})] :
                          h \in {r.detection_time % TicksPerDay : r \in rows}}, "hour")
    IN [Same(p) EXCEPT !.locals = l,
                       !.fetched = Append(@, CASE k = 1 -> route_stats
                                               [] k = 2 -> response_stats
                                               [] OTHER -> hourly)]

LogSystemEventStmt(p, k) ==
    LET c == call[p]
        a == call[p].args
    IN IF k = 1
       THEN [Same(p) EXCEPT !.gen_id =
                Identifier("SE", Day(now),
                           DailyCount(Visible(p).system_events, "timestamp"), 4)]
       ELSE [Same(p) EXCEPT
                !.txn = Append(@, Insert("system_events",
                           [id |-> NextId("system_events"), event_id |-> c.gen_id,
                            event_type |-> a.event_type,
                            event_data |-> DumpsIfTruthy(a.event_data), timestamp |-> now])),
                !.serial = [serial EXCEPT !["system_events"] = @ + 1]]

GetHospitalsStmt(p, k) ==
    LET a == call[p].args
    IN [Same(p) EXCEPT !.fetched =
           <<SortBy({r \in Visible(p).hospitals :
                       /\ r.status = "active"
                       /\ (a.hospital_type # "" => r.hospital_type = a.hospital_type)
                       /\ (a.emergency_only => r.emergency_services)}, "name")>>]

\* the sweep with one cutoff for all four tables: the aggregated rows are
\* deleted at days_to_keep like the raw ones
CleanupOldDataOneCutoff(p, k) ==
    LET a == call[p].args
        l == IF k = 1
             THEN [call[p].locals EXCEPT !.cutoff_date = now - a.days_to_keep * TicksPerDay]
             ELSE call[p].locals
        vis == Visible(p)
        old == CASE k = 1 -> {r.id : r \in {x \in vis.emergency_detections :
                                               x.detection_time < l.cutoff_date}}
                 [] k = 2 -> {r.id : r \in {x \in vis.signal_state_history :
                                               x.start_time < l.cutoff_date}}
                 [] k = 3 -> {r.id : r \in {x \in vis.system_events :
                                               x.timestamp < l.cutoff_date}}
                 [] OTHER -> {r.id : r \in {x \in vis.traffic_analytics :
                                               x.date < Day(l.cutoff_date)}}
        table == CASE k = 1 -> "emergency_detections"
                   [] k = 2 -> "signal_state_history"
                   [] k = 3 -> "system_events"
                   [] OTHER -> "traffic_analytics"
    IN [Same(p) EXCEPT !.locals = l, !.txn = Append(@, Delete(table, old))]

CleanupOldDataStmt(p, k) ==
    LET a == call[p].args
        l == IF k = 1
             THEN [call[p].locals EXCEPT !.cutoff_date = now - a.days_to_keep * TicksPerDay]
             ELSE call[p].locals
        vis == Visible(p)
        analytics_cutoff == now - (a.days_to_keep * 2) * TicksPerDay
        old == CASE k = 1 -> {r.id : r \in {x \in vis.emergency_detections :
                                               x.detection_time < l.cutoff_date}}
                 [] k = 2 -> {r.id : r \in {x \in vis.signal_state_history :
                                               x.start_time < l.cutoff_date}}
                 [] k = 3 -> {r.id : r \in {x \in vis.system_events :
                                               x.timestamp < l.cutoff_date}}
                 [] OTHER -> {r.id : r \in {x \in vis.traffic_analytics :
                                               x.date < Day(analytics_cutoff)}}
        table == CASE k = 1 -> "emergency_detections"
                   [] k = 2 -> "signal_state_history"
                   [] k = 3 -> "system_events"
                   [] OTHER -> "traffic_analytics"
    IN [Same(p) EXCEPT !.locals = l, !.txn = Append(@, Delete(table, old))]

\* the k-th cursor.execute (and fetch) of the method p is in
Stmt(p, k) ==
    CASE call[p].op = "initialize_database" -> InitializeDatabaseStmt(p, k)
      [] call[p].op = "log_emergency_detection" -> LogEmergencyDetectionStmt(p, k)
      [] call[p].op = "log_signal_state_change" -> LogSignalStateChangeStmt(p, k)
      [] call[p].op = "create_emergency_route" -> CreateEmergencyRouteStmt(p, k)
      [] call[p].op = "update_route_completion" -> UpdateRouteCompletionStmt(p, k)
      [] call[p].op = "get_all_signals" -> GetAllSignalsStmt(p, k)
      [] call[p].op = "get_signal_by_id" -> GetSignalByIdStmt(p, k)
      [] call[p].op = "update_signal_heartbeat" -> UpdateSignalHeartbeatStmt(p, k)
      [] call[p].op = "get_traffic_analytics" -> GetTrafficAnalyticsStmt(p, k)
      [] call[p].op = "get_emergency_analytics" -> GetEmergencyAnalyticsStmt(p, k)
      [] call[p].op = "log_system_event" -> LogSystemEventStmt(p, k)
      [] call[p].op = "get_hospitals" -> GetHospitalsStmt(p, k)
      [] call[p].op = "cleanup_old_data" -> CleanupOldDataStmt(p, k)

\* what the try block returns after return_connection
ReturnValue(c) ==
    CASE c.op \in {"log_emergency_detection", "log_signal_state_change",
                   "create_emergency_route"} -> Val(c.fetched[1])
      [] c.op \in {"get_all_signals", "get_hospitals"} -> List(c.fetched[1])
      [] c.op = "get_signal_by_id" ->
           IF c.fetched[1] = {} THEN None ELSE Dict(CHOOSE r \in c.fetched[1] : TRUE)
      [] c.op = "get_traffic_analytics" ->
           Dict([period |-> [start_date |-> c.locals.start_date,
                             end_date |-> c.locals.end_date],
                 overall |-> c.fetched[1], daily_breakdown |-> c.fetched[2],
                 signal_statistics |-> c.fetched[3]])
      [] c.op = "get_emergency_analytics" ->
           Dict([period |-> [start_date |-> c.locals.start_date,
                             end_date |-> c.locals.end_date],
                 route_statistics |-> c.fetched[1],
                 response_time_statistics |-> c.fetched[2],
                 hourly_distribution |-> c.fetched[3]])
      [] OTHER -> Nothing

\* ------------------------------------------------------------- the pool
\* SimpleConnectionPool(minconn=1, maxconn=10, dsn): opens minconn connections
NewPool == [made |-> TRUE, closed |-> FALSE, idle |-> 1 .. MINCONN, used |-> {}]

\* getconn up to the point where it either has its answer or must connect:
\* "pop" an idle connection, raise, or go on to "connect" a new one
GetConn(pl) ==
    CASE ~pl.made -> "AttributeError"
      [] pl.closed -> "PoolError"
      [] pl.idle # {} -> "pop"
      [] Cardinality(pl.used) = MAXCONN -> "PoolError"
      [] OTHER -> "connect"

\* putconn(conn): keep the connection while fewer than minconn are idle (after
\* rolling back a transaction it is still in), close it otherwise, and drop it
\* from the used ones.  On a closed pool, or when that rollback raises, putconn
\* raises before it has changed anything.
PutConn(pl, c, ok) ==
    IF pl.closed \/ ~ok THEN pl
    ELSE IF Cardinality(pl.idle) < MINCONN
         THEN [pl EXCEPT !.idle = @ \cup {c}, !.used = @ \ {c}]
         ELSE [pl EXCEPT !.used = @ \ {c}]

\* closeall(): raises on a pool that is closed already
CloseAllRaises(pl) == pl.closed

\* -------------------------------------------------------------- failures
\* a step that can raise: TRUE is success; a failure spends one of faultsLeft
Outcomes == IF faultsLeft > 0 THEN {TRUE, FALSE} ELSE {TRUE}
Spend(ok) == faultsLeft' = IF ok THEN faultsLeft ELSE faultsLeft - 1

\* the caller is back with the call's outcome; of the frame's locals the record
\* keeps, as history, the exception caught, the identifier and the connection
Finish(c, outcome, exc, value, trail) ==
    [IdleCall EXCEPT !.op = c.op, !.args = c.args, !.e = c.e, !.gen_id = c.gen_id,
                     !.conn = c.conn, !.before = c.before,
                     !.outcome = outcome, !.exc = exc, !.value = value,
                     !.trail = c.trail \o trail]

Fail(c, e) == [c EXCEPT !.pc = "except", !.e = e]

IsInsert(o) == o \in {"log_emergency_detection", "log_signal_state_change",
                      "create_emergency_route", "log_system_event"}
SerialTotal == serial["emergency_detections"] + serial["emergency_routes"]
               + serial["signal_state_history"] + serial["system_events"]

\* ---------------------------------------------------------------- actions
\* DatabaseManager(): __init__ and _initialize_connection_pool
Construct ==
    /\ store = "unconstructed"
    /\ \E ok \in Outcomes :
         /\ store' = IF ok THEN "ready" ELSE "failed"
         /\ pool' = IF ok THEN NewPool ELSE NoPool
         /\ Spend(ok)
    /\ UNCHANGED <<db, serial, now, call, issued, logged, pinged>>

Tick ==
    /\ now < MaxTime
    /\ now' = now + 1
    /\ UNCHANGED <<store, pool, db, serial, call, issued, logged, pinged, faultsLeft>>

\* caller p enters method o with arguments a
StartCall(p, o, a) ==
    /\ store = "ready"
    /\ call[p].pc = "idle"
    /\ IsInsert(o) => SerialTotal < MaxRows
    /\ call' = [call EXCEPT ![p] = [IdleCall EXCEPT !.pc = "acquire", !.op = o, !.args = a,
                                                     !.before = db]]
    /\ UNCHANGED <<store, pool, db, serial, now, issued, logged, pinged, faultsLeft>>

\* conn = self.get_connection(): getconn's test of the pool
Acquire(p) ==
    /\ call[p].pc = "acquire"
    /\ LET c == call[p]
           g == GetConn(pool)
       IN CASE g = "pop" ->
                 LET k == CHOOSE x \in pool.idle : TRUE
                 IN /\ pool' = [pool EXCEPT !.idle = @ \ {k}, !.used = @ \cup {k}]
                    /\ call' = [call EXCEPT ![p] = [c EXCEPT !.pc = "cursor", !.conn = k]]
            [] g = "connect" ->
                 /\ call' = [call EXCEPT ![p] = [c EXCEPT !.pc = "connect"]]
                 /\ UNCHANGED pool
            [] OTHER ->
                 /\ call' = [call EXCEPT ![p] = Fail(c, g)]
                 /\ UNCHANGED pool
    /\ UNCHANGED <<store, db, serial, now, issued, logged, pinged, faultsLeft>>

\* getconn's _connect: a new connection, entered among the used ones
Connect(p) ==
    /\ call[p].pc = "connect"
    /\ \E k \in Conns :
         /\ k \notin pool.idle \cup pool.used
         /\ \A j \in Conns : j < k => j \in pool.idle \cup pool.used
         /\ \E ok \in Outcomes :
              /\ Spend(ok)
              /\ IF ok
                 THEN /\ pool' = [pool EXCEPT !.used = @ \cup {k}]
                      /\ call' = [call EXCEPT ![p] =
                                     [call[p] EXCEPT !.pc = "cursor", !.conn = k]]
                 ELSE /\ call' = [call EXCEPT ![p] = Fail(call[p], "OperationalError")]
                      /\ UNCHANGED pool
    /\ UNCHANGED <<store, db, serial, now, issued, logged, pinged>>

\* cursor = conn.cursor(...)
OpenCursor(p) ==
    /\ call[p].pc = "cursor"
    /\ \E ok \in Outcomes :
         /\ Spend(ok)
         /\ call' = [call EXCEPT ![p] =
                        IF ok THEN [call[p] EXCEPT !.pc = "execute", !.cursor = TRUE, !.stmt = 1]
                        ELSE Fail(call[p], "CursorError")]
    /\ UNCHANGED <<store, pool, db, serial, now, issued, logged, pinged>>

\* the next cursor.execute of the try block, with its fetch
Execute(p) ==
    /\ call[p].pc = "execute"
    /\ LET c == call[p]
           s == Stmt(p, c.stmt)
           last == c.stmt = Statements(c.op)
       IN \E ok \in Outcomes :
            /\ Spend(ok)
            /\ IF ok
               THEN /\ call' = [call EXCEPT ![p] =
                                   [c EXCEPT !.txn = s.txn, !.gen_id = s.gen_id,
                                             !.locals = s.locals, !.fetched = s.fetched,
                                             !.intrans = TRUE, !.stmt = c.stmt + 1,
                                             !.pc = IF ~last THEN "execute"
                                                    ELSE IF Commits(c.op) THEN "commit"
                                                    ELSE "release"]]
                    /\ serial' = s.serial
               ELSE /\ call' = [call EXCEPT ![p] = [Fail(c, "QueryError") EXCEPT !.intrans = TRUE]]
                    /\ UNCHANGED serial
    /\ UNCHANGED <<store, pool, db, now, issued, logged, pinged>>

\* the history of generated identifiers: per method, the last two committed,
\* each with the day of its commit
Issue(c) ==
    IF c.op \in DOMAIN issued
    THEN [issued EXCEPT ![c.op] = [prev |-> @.last,
                                   last |-> [id |-> c.gen_id, day |-> Day(now)]]]
    ELSE issued

\* the history of logged detections: the arguments of each committed call
Log(c) == IF c.op = "log_emergency_detection" THEN Append(logged, c.args) ELSE logged

\* conn.commit()
Commit(p) ==
    /\ call[p].pc = "commit"
    /\ LET c == call[p]
       IN \E ok \in Outcomes :
            /\ Spend(ok)
            /\ IF ok
               THEN /\ db' = ApplyAll(db, c.txn)
                    /\ issued' = Issue(c)
                    /\ logged' = Log(c)
                    /\ call' = [call EXCEPT ![p] =
                                   [c EXCEPT !.pc = "release", !.txn = <<>>, !.intrans = FALSE]]
               ELSE /\ call' = [call EXCEPT ![p] = Fail(c, "CommitError")]
                    /\ UNCHANGED <<db, issued, logged>>
    /\ UNCHANGED <<store, pool, serial, now, pinged>>

\* the end of the try block: cursor.close(), return_connection(conn), return
Release(p) ==
    /\ call[p].pc = "release"
    /\ LET c == call[p]
       IN \E ok \in (IF c.intrans THEN Outcomes ELSE {TRUE}) :
            /\ Spend(ok)
            /\ pool' = PutConn(pool, c.conn, ok)
            /\ call' = [call EXCEPT ![p] =
                           Finish(c, "returned", "none", ReturnValue(c),
                                  <<"cursor.close", "return_connection">>)]
            /\ pinged' = (pinged \/ c.op = "initialize_database")
    /\ UNCHANGED <<store, db, serial, now, issued, logged>>

\* the except block.  Its first statement after the log line reads conn, which
\* is unassigned when get_connection raised; cursor.close() reads cursor, which
\* is unassigned when conn.cursor() raised.  The methods that commit call
\* conn.rollback() first; the block ends with a bare raise or a return.
Except(p) ==
    /\ call[p].pc = "except"
    /\ LET c == call[p]
       IN IF c.conn = Unbound
          THEN /\ call' = [call EXCEPT ![p] =
                              Finish(c, "raised", "UnboundLocalError", None, <<>>)]
               /\ UNCHANGED <<pool, faultsLeft>>
          ELSE \E ok \in (IF RollsBack(c.op) \/ (c.cursor /\ c.intrans)
                          THEN Outcomes ELSE {TRUE}) :
                 /\ Spend(ok)
                 /\ IF RollsBack(c.op) /\ ~ok
                    THEN /\ call' = [call EXCEPT ![p] =
                                        Finish(c, "raised", "RollbackError", None, <<>>)]
                         /\ UNCHANGED pool
                    ELSE LET done == IF RollsBack(c.op) THEN <<"rollback">> ELSE <<>>
                         IN IF ~c.cursor
                            THEN /\ call' = [call EXCEPT ![p] =
                                                Finish(c, "raised", "UnboundLocalError",
                                                       None, done)]
                                 /\ UNCHANGED pool
                            ELSE /\ pool' = PutConn(pool, c.conn, ok)
                                 /\ call' = [call EXCEPT ![p] =
                                      IF Reraises(c.op)
                                      THEN Finish(c, "raised", c.e, None,
                                                  done \o <<"cursor.close",
                                                            "return_connection", "raise">>)
                                      ELSE Finish(c, "returned", "none", SafeValue(c.op),
                                                  done \o <<"cursor.close",
                                                            "return_connection", "return">>)]
    /\ UNCHANGED <<store, db, serial, now, issued, logged, pinged>>

\* close_all_connections()
CloseAll(p) ==
    /\ store = "ready"
    /\ call[p].pc = "idle"
    /\ LET c == [IdleCall EXCEPT !.op = "close_all_connections"]
       IN IF ~pool.made
          THEN /\ call' = [call EXCEPT ![p] = Finish(c, "returned", "none", Nothing, <<>>)]
               /\ UNCHANGED pool
          ELSE IF CloseAllRaises(pool)
          THEN /\ call' = [call EXCEPT ![p] = Finish(c, "raised", "PoolError", None, <<>>)]
               /\ UNCHANGED pool
          ELSE /\ call' = [call EXCEPT ![p] = Finish(c, "returned", "none", Nothing, <<>>)]
               /\ pool' = [pool EXCEPT !.closed = TRUE]
    /\ UNCHANGED <<store, db, serial, now, issued, logged, pinged, faultsLeft>>

\* ---------------------------------------------------------- specifications
\* Spec: one caller, so the calls do not overlap; every method, every point of
\* failure; the calls happen within one tick of the clock.
Caller == CHOOSE p \in Procs : \A q \in Procs : p <= q

Next ==
    \/ Construct
    \/ \E o \in Ops : \E a \in ArgsOf(o) : StartCall(Caller, o, a)
    \/ Acquire(Caller)
    \/ Connect(Caller)
    \/ OpenCursor(Caller)
    \/ Execute(Caller)
    \/ Commit(Caller)
    \/ Release(Caller)
    \/ Except(Caller)
    \/ CloseAll(Caller)

Spec == Init /\ [][Next]_vars

\* SpecDays: one caller, every method, no failure, and the clock runs.
InitDays == InitWith(0)

NextDays ==
    \/ Construct
    \/ Tick
    \/ \E o \in Ops : \E a \in ArgsOf(o) : StartCall(Caller, o, a)
    \/ Acquire(Caller)
    \/ OpenCursor(Caller)
    \/ Execute(Caller)
    \/ Commit(Caller)
    \/ Release(Caller)

SpecDays == InitDays /\ [][NextDays]_vars

\* SpecRace: the callers' calls overlap; the methods that generate identifiers.
IdMethods == {"log_emergency_detection", "create_emergency_route", "log_system_event"}

NextRace ==
    \/ Construct
    \/ \E p \in Procs : \E o \in IdMethods : \E a \in ArgsOf(o) : StartCall(p, o, a)
    \/ \E p \in Procs : Acquire(p)
    \/ \E p \in Procs : Connect(p)
    \/ \E p \in Procs : OpenCursor(p)
    \/ \E p \in Procs : Execute(p)
    \/ \E p \in Procs : Commit(p)
    \/ \E p \in Procs : Release(p)

SpecRace == InitDays /\ [][NextRace]_vars

\* SpecConcurrent: the callers' calls overlap; the first caller reads the
\* traffic analytics while the others log detections, of now and of the day
\* before, or sweep old rows. Each statement reads the rows committed when it
\* runs (psycopg2 leaves the connection at the server's READ COMMITTED).
ConcurrentMethods(p) ==
    IF p = Caller THEN {"get_traffic_analytics"}
    ELSE {"log_emergency_detection", "cleanup_old_data"}

ConcurrentArgsOf(o) ==
    IF o = "log_emergency_detection"
    THEN {[NoArgs EXCEPT !.detection_time = t] : t \in {-TicksPerDay, 0}}
    ELSE ArgsOf(o)

NextConcurrent ==
    \/ Construct
    \/ \E p \in Procs : \E o \in ConcurrentMethods(p) :
         \E a \in ConcurrentArgsOf(o) : StartCall(p, o, a)
    \/ \E p \in Procs : Acquire(p)
    \/ \E p \in Procs : Connect(p)
    \/ \E p \in Procs : OpenCursor(p)
    \/ \E p \in Procs : Execute(p)
    \/ \E p \in Procs : Commit(p)
    \/ \E p \in Procs : Release(p)

SpecConcurrent == InitDays /\ [][NextConcurrent]_vars

\* SpecPool: the callers' calls overlap on the pool; one read method, and enough
\* failures to strand every connection the pool may open.
InitPool == InitWith(MAXCONN)

NextPool ==
    \/ Construct
    \/ \E p \in Procs : StartCall(p, "get_all_signals", NoArgs)
    \/ \E p \in Procs : Acquire(p)
    \/ \E p \in Procs : Connect(p)
    \/ \E p \in Procs : OpenCursor(p)
    \/ \E p \in Procs : Execute(p)
    \/ \E p \in Procs : Release(p)
    \/ \E p \in Procs : Except(p)

SpecPool == InitPool /\ [][NextPool]_vars

\* SpecRoutes: one caller, the two route methods, the clock runs; the update is
\* called with identifiers that exist, that exist twice and that do not exist,
\* and with every status.
RouteArgsOf(o) ==
    IF o = "create_emergency_route" THEN ArgsOf(o)
    ELSE {[NoArgs EXCEPT !.route_id = Identifier("ER", 0, n, 3), !.status = st] :
            n \in 1 .. MaxRows + 1, st \in {"completed", "failed", "pending"}}

NextRoutes ==
    \/ Construct
    \/ Tick
    \/ \E o \in {"create_emergency_route", "update_route_completion"} :
         \E a \in RouteArgsOf(o) : StartCall(Caller, o, a)
    \/ Acquire(Caller)
    \/ OpenCursor(Caller)
    \/ Execute(Caller)
    \/ Commit(Caller)
    \/ Release(Caller)

SpecRoutes == InitDays /\ [][NextRoutes]_vars

\* SpecCleanup: one caller, the three logging methods and the retention sweep,
\* every point of failure; detections arrive with detection times in the past;
\* the clock ticks between calls (a call is short against a tick).
PastTimes == {-3, -1, 0}

\* traffic_analytics is filled by another component: rows of several ages
AgedAnalytics == { [id |-> 1, date |-> -3], [id |-> 2, date |-> -1],
                   [id |-> 3, date |-> 0] }

InitCleanup == InitFrom([EmptyDb EXCEPT !.traffic_analytics = AgedAnalytics], MaxFaults)

CleanupArgsOf(o) ==
    IF o = "log_emergency_detection"
    THEN {[NoArgs EXCEPT !.detection_time = t] : t \in PastTimes}
    ELSE ArgsOf(o)

NextCleanup ==
    \/ Construct
    \/ call[Caller].pc = "idle" /\ Tick
    \/ \E o \in {"log_emergency_detection", "log_signal_state_change", "log_system_event",
                 "cleanup_old_data"} :
         \E a \in CleanupArgsOf(o) : StartCall(Caller, o, a)
    \/ Acquire(Caller)
    \/ Connect(Caller)
    \/ OpenCursor(Caller)
    \/ Execute(Caller)
    \/ Commit(Caller)
    \/ Release(Caller)
    \/ Except(Caller)

SpecCleanup == InitCleanup /\ [][NextCleanup]_vars

\* SpecAnalytics: one caller, detections and routes logged and the two analytics
\* methods called over several date ranges, no failure; the clock ticks between
\* calls.  The detections differ in signal, vehicle type, age and response time.
DetectionProfiles ==
    {<<"S1", "ambulance", 0, NULL>>, <<"S1", "police", 0, 999>>,
     <<"S2", "ambulance", 1, 1000>>, <<"S2", "fire_truck", 0, 2999>>,
     <<"S1", "ambulance", -20, 3000>>, <<"S1", "tow_truck", 2, 3000>>}

AnalyticsRanges == {<<NULL, NULL>>, <<0, 0>>, <<-10, 1>>, <<1, 0>>, <<5, 6>>}

AnalyticsArgsOf(o) ==
    CASE o = "log_emergency_detection" ->
           {[NoArgs EXCEPT !.signal_id = d[1], !.vehicle_type = d[2],
                           !.detection_time = d[3], !.response_time_ms = d[4]] :
              d \in DetectionProfiles}
      [] o \in {"get_traffic_analytics", "get_emergency_analytics"} ->
           {[NoArgs EXCEPT !.start_date = r[1], !.end_date = r[2]] : r \in AnalyticsRanges}
      [] OTHER -> ArgsOf(o)

NextAnalytics ==
    \/ Construct
    \/ call[Caller].pc = "idle" /\ Tick
    \/ \E o \in {"log_emergency_detection", "create_emergency_route",
                 "get_traffic_analytics", "get_emergency_analytics"} :
         \E a \in AnalyticsArgsOf(o) : StartCall(Caller, o, a)
    \/ Acquire(Caller)
    \/ OpenCursor(Caller)
    \/ Execute(Caller)
    \/ Commit(Caller)
    \/ Release(Caller)

SpecAnalytics == InitDays /\ [][NextAnalytics]_vars

\* SpecWrites: one caller, the three methods that store structured payloads,
\* called with each payload absent, empty and filled; no failure.
DictArgs == {None, Dict(<<>>), Dict(<<1>>)}
ListArgs == {None, List(<<>>), List(<<1>>)}

WriteArgsOf(o) ==
    CASE o = "log_emergency_detection" ->
           {[NoArgs EXCEPT !.bbox_coordinates = b, !.features_detected = f] :
              b \in DictArgs, f \in ListArgs}
      [] o = "create_emergency_route" ->
           {[NoArgs EXCEPT !.route_waypoints = w, !.signals_coordinated = c] :
              w \in ListArgs, c \in ListArgs}
      [] OTHER -> {[NoArgs EXCEPT !.event_data = d] : d \in DictArgs}

NextWrites ==
    \/ Construct
    \/ \E o \in IdMethods : \E a \in WriteArgsOf(o) : StartCall(Caller, o, a)
    \/ Acquire(Caller)
    \/ OpenCursor(Caller)
    \/ Execute(Caller)
    \/ Commit(Caller)
    \/ Release(Caller)

SpecWrites == InitDays /\ [][NextWrites]_vars

\* ------------------------------------------------------------------ claims
Idle(p) == call[p].pc = "idle"

BestEffort == {"update_signal_heartbeat", "log_system_event", "get_all_signals",
               "get_signal_by_id", "get_hospitals", "get_traffic_analytics",
               "get_emergency_analytics"}

CriticalWrites == {"log_emergency_detection", "log_signal_state_change",
                   "create_emergency_route", "update_route_completion"}

AcquireErrors == {"PoolError", "OperationalError", "AttributeError"}

\* C1: a best-effort method never raises: whatever step of it failed (acquiring
\* the connection, creating the cursor, a statement, the commit), the call has
\* returned normally with the method's safe value.
C1_BestEffortNeverRaises ==
    \A p \in Procs :
        (Idle(p) /\ call[p].op \in BestEffort /\ call[p].e # "none")
        => (call[p].outcome = "returned" /\ call[p].value = SafeValue(call[p].op))

\* C2: a critical write whose id generation, statement or commit failed has
\* rolled back, then closed the cursor and returned the connection to the pool,
\* and has ended by raising.
C2_CriticalWriteRollsBackAndRaises ==
    \A p \in Procs :
        (Idle(p) /\ call[p].op \in CriticalWrites
                 /\ call[p].e \in {"QueryError", "CommitError"})
        => /\ call[p].outcome = "raised"
           /\ call[p].trail = <<"rollback", "cursor.close", "return_connection", "raise">>
           /\ call[p].conn \notin pool.used

\* C3: writes are atomic: while a write is in progress the committed tables are
\* those of before the call; a write that failed at a statement or at its commit
\* has left them as they were, log_signal_state_change having raised and
\* log_system_event having returned normally.
C3_WritesAtomic ==
    \A p \in Procs :
        /\ call[p].pc \in {"acquire", "connect", "cursor", "execute", "commit", "except"}
           => db = call[p].before
        /\ (Idle(p) /\ call[p].op \in CriticalWrites \cup {"log_system_event"}
                    /\ call[p].e \in {"QueryError", "CommitError"})
           => /\ db = call[p].before
              /\ call[p].op = "log_signal_state_change" => call[p].outcome = "raised"
              /\ call[p].op = "log_system_event" => call[p].outcome = "returned"

\* C4: no connection leaks: whenever no call is in progress, no connection is
\* checked out of the pool.
C4_NoConnectionLeak ==
    (\A p \in Procs : Idle(p)) => pool.used = {}

\* C5: within one day the identifiers a method generates strictly increase from
\* one committed call to the next (so they are pairwise distinct), whatever the
\* arguments and whatever ran in between.
C5_IdsIncreaseWithinDay ==
    \A o \in DOMAIN issued :
        (issued[o].prev.day # NULL /\ issued[o].prev.day = issued[o].last.day)
        => issued[o].last.id.seq > issued[o].prev.id.seq

IdTable == [log_emergency_detection |-> "emergency_detections",
            create_emergency_route |-> "emergency_routes",
            log_system_event |-> "system_events"]
IdColumn == [log_emergency_detection |-> "detection_id",
             create_emergency_route |-> "route_id",
             log_system_event |-> "event_id"]

\* the rows of method o's table that carry identifier i
Carrying(o, i) == {r \in db[IdTable[o]] : r[IdColumn[o]] = i}

\* caller p's call has committed: it is past conn.commit(), or back from it
Committed(p) ==
    \/ call[p].pc = "release"
    \/ Idle(p) /\ call[p].outcome = "returned" /\ call[p].e = "none"

\* C6: nothing in an identifier-generating method keeps apart two calls that
\* generated the same identifier: when two callers have both committed a call
\* of the same method with the same generated identifier, both rows are in the
\* table, carrying that identifier.
C6_DuplicateIdsBothCommitted ==
    \A p \in Procs : \A q \in Procs \ {p} :
        (/\ Committed(p) /\ Committed(q)
         /\ call[p].op \in IdMethods /\ call[q].op = call[p].op
         /\ call[p].gen_id = call[q].gen_id)
        => Cardinality(Carrying(call[p].op, call[p].gen_id)) >= 2

\* two overlapping calls of log_system_event, both past their commit and not
\* yet returned, that generated the same identifier, each with its row stored
C6_OverlapReachesDuplicate ==
    \E p \in Procs : \E q \in Procs \ {p} :
        /\ call[p].pc = "release" /\ call[q].pc = "release"
        /\ call[p].op = "log_system_event" /\ call[q].op = "log_system_event"
        /\ call[p].gen_id = call[q].gen_id
        /\ Cardinality(Carrying("log_system_event", call[p].gen_id)) = 2

\* caller p holds a connection handed out by get_connection
Holding(p) == call[p].pc \in {"cursor", "execute", "commit", "release", "except"}
              /\ call[p].conn # Unbound

\* C7: under concurrent callers a connection is held by at most one call in
\* progress, and never more than 10 connections are checked out of the pool.
C7_PoolExclusiveAndBounded ==
    /\ Cardinality(pool.used) <= MAXCONN
    /\ \A p \in Procs : \A q \in Procs \ {p} :
           (Holding(p) /\ Holding(q)) => call[p].conn # call[q].conn

\* C8: close_all_connections is idempotent: every call of it, a second one after
\* a successful first one included, returns normally and leaves the pool closed.
C8_CloseAllIdempotent ==
    \A p \in Procs :
        (Idle(p) /\ call[p].op = "close_all_connections")
        => (call[p].outcome = "returned" /\ pool.closed)

\* C9 as stated: no operation other than the initialization runs a statement on
\* a pooled connection before an initialization has completed its round trip,
\* and an initialization that failed has raised.
C9_LivenessPrecedesReadiness ==
    \A p \in Procs :
        /\ (call[p].op # "initialize_database" /\ call[p].cursor /\ call[p].stmt > 1)
           => pinged
        /\ (Idle(p) /\ call[p].op = "initialize_database" /\ call[p].e # "none")
           => call[p].outcome = "raised"

\* C9 amended: the store is usable from the moment construction has succeeded,
\* and not before; initialize_database is a round trip made on request: when
\* it returns normally the round trip has completed, and when pool construction
\* or the round trip failed the failure has been raised to the caller.
C9_UsableOnceConstructed ==
    /\ store # "ready" => (pool = NoPool /\ \A p \in Procs : call[p] = IdleCall)
    /\ store = "ready" => pool.made
    /\ \A p \in Procs :
        /\ (Idle(p) /\ call[p].op = "initialize_database" /\ call[p].e # "none")
           => call[p].outcome = "raised"
        /\ (Idle(p) /\ call[p].op = "initialize_database" /\ call[p].outcome = "returned")
           => pinged

\* an operation other than the initialization has run its statements and
\* returned normally with no round trip ever made by initialize_database
C9_UsedBeforeRoundTrip ==
    \E p \in Procs :
        /\ Idle(p) /\ call[p].op = "get_all_signals"
        /\ call[p].outcome = "returned" /\ call[p].e = "none"
        /\ call[p].value # SafeValue("get_all_signals")
        /\ ~pinged

\* C10: a critical write in which get_connection failed has raised to its
\* caller the error that get_connection raised.
C10_AcquireErrorSurfaces ==
    \A p \in Procs :
        (Idle(p) /\ call[p].op \in CriticalWrites /\ call[p].e \in AcquireErrors)
        => (call[p].outcome = "raised" /\ call[p].exc = call[p].e)

\* caller p is past the commit of a call of method o and has not returned yet
JustCommitted(p, o) == call[p].pc = "release" /\ call[p].op = o

\* the row of a set of rows with serial id i
RowOf(rows, i) == CHOOSE r \in rows : r.id = i

\* C11: update_route_completion sets actual_duration, time_saved, status and
\* completed_at of the route rows with the given route_id and leaves their other
\* fields, every other route row and every other table as they were; with no
\* such route nothing changes.
C11_UpdateRouteFrame ==
    \A p \in Procs :
        JustCommitted(p, "update_route_completion")
        => LET a == call[p].args
               B == call[p].before.emergency_routes
               A == db.emergency_routes
           IN /\ \A t \in DOMAIN db \ {"emergency_routes"} : db[t] = call[p].before[t]
              /\ {r.id : r \in A} = {r.id : r \in B}
              /\ Cardinality(A) = Cardinality(B)
              /\ \A r \in B :
                    LET u == RowOf(A, r.id)
                    IN IF r.route_id = a.route_id
                       THEN /\ u.actual_duration = a.actual_duration
                            /\ u.time_saved = a.time_saved
                            /\ u.status = a.status
                            /\ u.completed_at \in 0 .. now
                            /\ \A f \in DOMAIN r \ {"actual_duration", "time_saved",
                                                    "status", "completed_at"} : u[f] = r[f]
                       ELSE u = r
              /\ (\A r \in B : r.route_id # a.route_id) => db = call[p].before

\* an update has just committed that set one route while another route, of a
\* different route_id, is stored next to it
C11_UpdatedOneOfTwo ==
    \E p \in Procs :
        /\ JustCommitted(p, "update_route_completion")
        /\ \E r \in db.emergency_routes :
             r.route_id = call[p].args.route_id /\ r.status = "failed"
        /\ \E r \in db.emergency_routes :
             r.route_id # call[p].args.route_id /\ r.status = "pending"

SweptTables == {"emergency_detections", "signal_state_history", "system_events",
                "traffic_analytics"}

\* the column a table's delete compares, and whether row r of table t is older
\* than the cutoff that days_to_keep = d sets for t at the present time
AgeColumn == [emergency_detections |-> "detection_time", signal_state_history |-> "start_time",
              system_events |-> "timestamp", traffic_analytics |-> "date"]
Expired(t, r, d) ==
    IF t = "traffic_analytics" THEN r.date < Day(now - (2 * d) * TicksPerDay)
    ELSE r[AgeColumn[t]] < now - d * TicksPerDay

\* C12: cleanup_old_data is all-or-nothing: while it runs, and after it failed
\* at any step, the committed tables are those of before the call; once it has
\* committed, all four deletes have taken effect together.
C12_CleanupAllOrNothing ==
    \A p \in Procs :
        call[p].op = "cleanup_old_data"
        => /\ call[p].pc \in {"acquire", "connect", "cursor", "execute", "commit", "except"}
              => db = call[p].before
           /\ (Idle(p) /\ call[p].e # "none") => db = call[p].before
           /\ JustCommitted(p, "cleanup_old_data")
              => \A t \in SweptTables :
                    /\ db[t] \subseteq call[p].before[t]
                    /\ \A r \in db[t] : ~Expired(t, r, call[p].args.days_to_keep)

\* a sweep whose commit failed after its four deletes had run, leaving rows that
\* the sweep would have deleted in two of the tables
C12_FailedSweepKeptRows ==
    \E p \in Procs :
        /\ Idle(p) /\ call[p].op = "cleanup_old_data" /\ call[p].e = "CommitError"
        /\ \E r \in db.traffic_analytics : Expired("traffic_analytics", r, call[p].args.days_to_keep)
        /\ \E r \in db.emergency_detections :
              Expired("emergency_detections", r, call[p].args.days_to_keep)

\* C13: after a successful cleanup_old_data(d) the detections, state-history
\* rows and system events older than now - d days are gone and the others kept;
\* of traffic_analytics the rows dated before now - 2*d days are gone and the
\* others kept; no other table changed.
C13_RetentionCutoffs ==
    \A p \in Procs :
        JustCommitted(p, "cleanup_old_data")
        => /\ \A t \in SweptTables :
                 db[t] = {r \in call[p].before[t] : ~Expired(t, r, call[p].args.days_to_keep)}
           /\ \A t \in DOMAIN db \ SweptTables : db[t] = call[p].before[t]

\* a sweep with d = 1 has committed: it removed a detection and kept one, and it
\* kept an aggregated row aged between d and 2*d days while removing an older one
C13_KeptBetweenCutoffs ==
    \E p \in Procs :
        /\ JustCommitted(p, "cleanup_old_data") /\ call[p].args.days_to_keep = 1
        /\ db.emergency_detections # {}
        /\ db.emergency_detections # call[p].before.emergency_detections
        /\ db.traffic_analytics # call[p].before.traffic_analytics
        /\ \E r \in db.traffic_analytics : r.date = Day(now) - 1

\* caller p's analytics call of method o has run its queries and is about to
\* return; Returning(p) is the structure it returns
AboutToReturn(p, o) == call[p].pc = "release" /\ call[p].op = o
Returning(p) == ReturnValue(call[p]).v

\* the date range a call asked for: its arguments, or the trailing `days` days
\* up to today where an argument was omitted
Asked(a, days) ==
    [start_date |-> IF a.start_date = NULL THEN Day(now) - days ELSE a.start_date,
     end_date |-> IF a.end_date = NULL THEN Day(now) ELSE a.end_date]
Within(t, range) == range.start_date <= Day(t) /\ Day(t) <= range.end_date

\* C14 amended: over a range holding no detection (and no route) the analytics
\* methods return a structure whose counts are 0, whose per-day and per-hour
\* lists are empty and whose per-signal list shows 0 detections for each signal,
\* and whose period is the range asked for: the arguments, or today minus 7
\* days (traffic) or minus 30 days (emergency) up to today where omitted.
C14_EmptyRangeAnalytics ==
    \A p \in Procs :
        /\ AboutToReturn(p, "get_traffic_analytics")
           => LET v == Returning(p)
                  range == Asked(call[p].args, 7)
              IN /\ v.period = range
                 /\ (\A r \in db.emergency_detections : ~Within(r.detection_time, range))
                    => /\ v.overall.total_detections = 0
                       /\ v.overall.signals_with_detections = 0
                       /\ v.overall.ambulance_detections = 0
                       /\ v.overall.police_detections = 0
                       /\ v.overall.fire_truck_detections = 0
                       /\ v.daily_breakdown = <<>>
                       /\ \A i \in DOMAIN v.signal_statistics :
                             v.signal_statistics[i].detections = 0
        /\ AboutToReturn(p, "get_emergency_analytics")
           => LET v == Returning(p)
                  range == Asked(call[p].args, 30)
              IN /\ v.period = range
                 /\ ((\A r \in db.emergency_detections : ~Within(r.detection_time, range))
                     /\ (\A r \in db.emergency_routes : ~Within(r.created_at, range)))
                    => /\ v.route_statistics.total_routes = 0
                       /\ v.route_statistics.completed_routes = 0
                       /\ v.route_statistics.ambulance_routes = 0
                       /\ v.route_statistics.police_routes = 0
                       /\ v.route_statistics.fire_truck_routes = 0
                       /\ v.response_time_statistics.fast_responses = 0
                       /\ v.response_time_statistics.medium_responses = 0
                       /\ v.response_time_statistics.slow_responses = 0
                       /\ v.hourly_distribution = <<>>

\* C14 as stated: over a range holding no detection every breakdown list of the
\* structure returned is empty, the per-signal one included, next to the zero
\* counts and the period of the amended statement.
C14_EmptyRangeListsAllEmpty ==
    /\ C14_EmptyRangeAnalytics
    /\ \A p \in Procs :
          (/\ AboutToReturn(p, "get_traffic_analytics")
           /\ \A r \in db.emergency_detections :
                 ~Within(r.detection_time, Asked(call[p].args, 7)))
          => Returning(p).signal_statistics = <<>>

\* get_traffic_analytics called with both dates omitted is about to return zero
\* counts over the last 7 days while a detection older than that is stored
C14_DefaultedRangeIsEmpty ==
    \E p \in Procs :
        /\ AboutToReturn(p, "get_traffic_analytics")
        /\ call[p].args.start_date = NULL /\ call[p].args.end_date = NULL
        /\ db.emergency_detections # {}
        /\ Returning(p).overall.total_detections = 0
        /\ Returning(p).period = [start_date |-> Day(now) - 7, end_date |-> Day(now)]

\* the logged detections (positions in the history) whose date is in the range
LoggedWithin(range) == {i \in DOMAIN logged : Within(logged[i].detection_time, range)}
LoggedOfType(range, v) == {i \in LoggedWithin(range) : logged[i].vehicle_type = v}

\* C15: get_traffic_analytics reports as total_detections the number of logged
\* detections dated in the range, and as ambulance, police and fire_truck
\* detections the number of them of that vehicle type.
C15_CountsMatchLogged ==
    \A p \in Procs :
        AboutToReturn(p, "get_traffic_analytics")
        => LET o == Returning(p).overall
               range == Asked(call[p].args, 7)
           IN /\ o.total_detections = Cardinality(LoggedWithin(range))
              /\ o.ambulance_detections = Cardinality(LoggedOfType(range, "ambulance"))
              /\ o.police_detections = Cardinality(LoggedOfType(range, "police"))
              /\ o.fire_truck_detections = Cardinality(LoggedOfType(range, "fire_truck"))

\* an ambulance and a police detection were logged and the analytics over their
\* dates are about to report 2 detections: 1 ambulance, 1 police, 0 fire trucks
C15_AmbulanceAndPolice ==
    \E p \in Procs :
        /\ AboutToReturn(p, "get_traffic_analytics")
        /\ Len(logged) = 2
        /\ {logged[1].vehicle_type, logged[2].vehicle_type} = {"ambulance", "police"}
        /\ Returning(p).overall.total_detections = 2
        /\ Returning(p).overall.ambulance_detections = 1
        /\ Returning(p).overall.police_detections = 1
        /\ Returning(p).overall.fire_truck_detections = 0

\* the logged detections dated in the range that carry a response time
Measured(range) == {i \in LoggedWithin(range) : logged[i].response_time_ms # NULL}

\* C19: the response-time buckets partition the measured in-range detections:
\* fast counts those under 1000 ms, medium those from 1000 to 2999, slow those
\* of 3000 and more, and the three counts add up to the number measured.
C19_BucketsPartition ==
    \A p \in Procs :
        AboutToReturn(p, "get_emergency_analytics")
        => LET b == Returning(p).response_time_statistics
               M == Measured(Asked(call[p].args, 30))
           IN /\ b.fast_responses + b.medium_responses + b.slow_responses = Cardinality(M)
              /\ b.fast_responses = Cardinality({i \in M : logged[i].response_time_ms <= 999})
              /\ b.medium_responses =
                    Cardinality({i \in M : logged[i].response_time_ms \in 1000 .. 2999})
              /\ b.slow_responses = Cardinality({i \in M : logged[i].response_time_ms >= 3000})

\* detections of exactly 1000 ms and of no response time were logged, and the
\* analytics are about to report the one measured detection as medium
C19_BoundaryIsMedium ==
    \E p \in Procs :
        /\ AboutToReturn(p, "get_emergency_analytics")
        /\ Len(logged) = 2
        /\ {logged[1].response_time_ms, logged[2].response_time_ms} = {1000, NULL}
        /\ Cardinality(LoggedWithin(Asked(call[p].args, 30))) = 2
        /\ Returning(p).response_time_statistics.medium_responses = 1
        /\ Returning(p).response_time_statistics.fast_responses = 0
        /\ Returning(p).response_time_statistics.slow_responses = 0

\* C20: signal_statistics holds exactly one entry for each row of
\* traffic_signals; an entry's detections is the number of in-range detections
\* of that signal, and with none its avg_confidence and last_detection are null.
C20_EverySignalListed ==
    \A p \in Procs :
        AboutToReturn(p, "get_traffic_analytics")
        => LET q == Returning(p).signal_statistics
               range == Asked(call[p].args, 7)
           IN /\ Len(q) = Cardinality(db.traffic_signals)
              /\ \A s \in db.traffic_signals :
                    \E i \in DOMAIN q :
                       /\ q[i].id = s.id
                       /\ \A j \in DOMAIN q : q[j].id = s.id => j = i
                       /\ q[i].detections =
                             Cardinality({k \in LoggedWithin(range) : logged[k].signal_id = s.id})
                       /\ q[i].detections = 0
                          => (q[i].avg_confidence = NULL /\ q[i].last_detection = NULL)

\* a detection of one signal is in range and the statistics about to be returned
\* list that signal with 1 detection and another signal with 0 and null aggregates
C20_SignalWithoutDetections ==
    \E p \in Procs :
        /\ AboutToReturn(p, "get_traffic_analytics")
        /\ \E i \in DOMAIN Returning(p).signal_statistics :
              Returning(p).signal_statistics[i].detections = 1
        /\ \E i \in DOMAIN Returning(p).signal_statistics :
              /\ Returning(p).signal_statistics[i].detections = 0
              /\ Returning(p).signal_statistics[i].last_detection = NULL

\* the row that caller p's insert into table t has just stored
Stored(t) == RowOf(db[t], serial[t])

\* a payload column holds the JSON serialization of the value passed, or is
\* absent when the value passed was absent
RoundTrips(column, x) == column = Present(JsonDumps(x)) \/ (x = None /\ column = Absent)

\* C16: the row stored by a successful log_emergency_detection,
\* create_emergency_route or log_system_event carries the arguments passed,
\* each structured payload as its JSON serialization, absent only when the
\* argument was absent.
C16_WriteRoundTrip ==
    \A p \in Procs :
        LET a == call[p].args
        IN /\ JustCommitted(p, "log_emergency_detection")
              => LET r == Stored("emergency_detections")
                 IN /\ r.signal_id = a.signal_id /\ r.vehicle_type = a.vehicle_type
                    /\ r.confidence = a.confidence /\ r.detection_time = a.detection_time
                    /\ r.response_time_ms = a.response_time_ms
                    /\ RoundTrips(r.bbox_coordinates, a.bbox_coordinates)
                    /\ RoundTrips(r.features_detected, a.features_detected)
           /\ JustCommitted(p, "create_emergency_route")
              => LET r == Stored("emergency_routes")
                 IN /\ r.vehicle_type = a.vehicle_type
                    /\ RoundTrips(r.start_location, a.start_location)
                    /\ RoundTrips(r.end_location, a.end_location)
                    /\ RoundTrips(r.route_waypoints, a.route_waypoints)
                    /\ RoundTrips(r.signals_coordinated, a.signals_coordinated)
           /\ JustCommitted(p, "log_system_event")
              => LET r == Stored("system_events")
                 IN /\ r.event_type = a.event_type
                    /\ RoundTrips(r.event_data, a.event_data)

\* C17: a generated identifier is TAG-date-sequence with the sequence number
\* zero-padded to exactly 3 digits (ED, ER) or 4 digits (SE); and the first
\* detection logged on a day on which none was logged before has sequence 001,
\* whatever was logged on earlier days.
C17_IdFormatAndReset ==
    /\ \A o \in DOMAIN issued :
          issued[o].last.day # NULL
          => /\ issued[o].last.id.tag = (CASE o = "log_emergency_detection" -> "ED"
                                           [] o = "create_emergency_route" -> "ER"
                                           [] OTHER -> "SE")
             /\ Len(issued[o].last.id.seq_text) = (IF o = "log_system_event" THEN 4 ELSE 3)
    /\ LET d == issued["log_emergency_detection"]
       IN (d.last.day # NULL /\ d.prev.day # d.last.day) => d.last.id.seq_text = <<0, 0, 1>>

\* C18: a route is created with status pending; a step changes a pending route
\* only by completing it (its status stays pending or becomes completed or
\* failed), and a route that has left pending never changes again: its status,
\* actual_duration, time_saved and completed_at stay as the one update left them.
C18_RouteLifecycle ==
    [][\A u \in db'.emergency_routes :
          LET old == {r \in db.emergency_routes : r.id = u.id}
          IN /\ old = {} => u.status = "pending"
             /\ \A r \in old :
                   IF r.status = "pending"
                   THEN u.status \in {"pending", "completed", "failed"}
                   ELSE /\ u.status = r.status
                        /\ u.actual_duration = r.actual_duration
                        /\ u.time_saved = r.time_saved
                        /\ u.completed_at = r.completed_at]_vars

\* C21: a route_id identifies one route: no two rows of emergency_routes share a
\* route_id, whatever days of the year the routes were created on, and a
\* committed update_route_completion has modified at most one row.
C21_RouteIdIdentifiesOneRoute ==
    /\ \A r, u \in db.emergency_routes : r.route_id = u.route_id => r.id = u.id
    /\ \A p \in Procs :
          JustCommitted(p, "update_route_completion")
          => Cardinality({r \in call[p].before.emergency_routes :
                            RowOf(db.emergency_routes, r.id) # r}) <= 1

\* the detections counts of a daily breakdown, added up
DailyTotal(daily) == SumOf({daily[i] : i \in DOMAIN daily}, "detections")

\* C22: the structure a successful get_traffic_analytics returns is consistent:
\* overall.total_detections is the sum of the detections counts of
\* daily_breakdown, also when other callers' log_emergency_detection or
\* cleanup_old_data calls commit between its queries.
C22_TotalIsSumOfDaily ==
    \A p \in Procs :
        AboutToReturn(p, "get_traffic_analytics")
        => Returning(p).overall.total_detections = DailyTotal(Returning(p).daily_breakdown)

====
